---- MODULE Spec2Model ----
(***************************************************************************)
(* Query-analytics clustering and reporting engine of the Playground       *)
(* application: app/services/analytics_reporting_service.py together with  *)
(* the Firestore accessors it calls (app/services/firestore_service.py)    *)
(* and the writers of the analytics collection                             *)
(* (app/services/analytics_logging_service.py).                            *)
(*                                                                         *)
(* Conventions.  Python strings are sequences of one-character strings, so *)
(* that slicing ([:50]), strip() and concatenation are computed.  Python   *)
(* None is the string None where the other values are strings, and the     *)
(* empty sequence where they are sequences (both are falsy).  Embedding    *)
(* vectors have dimension 1, so the Euclidean norm of a difference is the  *)
(* absolute value of the difference of the coordinates.  A Firestore       *)
(* document id is the position of the document in the collection, which is *)
(* kept in document-id order.                                              *)
(***************************************************************************)
EXTENDS Integers, Sequences, FiniteSets, TLC

VARIABLES events, reports, run, sel, inv, twin, job, app

vars == <<events, reports, run, sel, inv, twin, job, app>>

----------------------------------------------------------------------------
(* Bounds of the exploration *)

MaxEvents == 5          \* documents in the analytics collection
MaxRatedDoc == 1        \* rate requests address document ids 1..MaxRatedDoc
MaxSupplied == 2        \* caller-supplied n_clusters ranges over 1..MaxSupplied
MaxInertia == 2         \* inertia values reported by a fit range over 0..MaxInertia
MaxSelN == 10           \* selector alone: number of vectors
MaxSelClusters == 4     \* selector alone: max_clusters ranges over 1..MaxSelClusters
MaxTwinN == 5           \* repeated runs: number of vectors ranges over MinQueries..MaxTwinN
MaxEntropy == 1         \* repeated runs: operating-system entropy ranges over 0..MaxEntropy
BlobVectors == 30       \* inertia curves: number of vectors of the three-blob input
DuplicateVectors == 20  \* inertia curves: number of vectors of the near-duplicate input
MaxDrop == 3            \* inertia curves: a sharp drop is DropUnit * (1..MaxDrop)
DropUnit == 10          \* inertia curves: size of a sharp drop against a jitter of 1
MaxJobEvents == 6       \* collaborator calls: the fetch returns 0..MaxJobEvents events
MaxJobClusters == 3     \* collaborator calls: 1..MaxJobClusters clusters have members
MaxQueryTexts == 3      \* labeler: lists of 0..MaxQueryTexts query texts
MaxRequested == 12      \* hydration: lists of 0..MaxRequested document ids
MaxMissing == 2         \* hydration: at most MaxMissing of the ids have no document

(* Program constants *)

MinQueries == 5         \* run_daily_analytics: minimum number of fetched events
EngineMaxClusters == 15 \* run_daily_analytics: max_clusters passed to the selector
DefaultClusters == 5    \* run_daily_analytics: n_clusters when neither given nor detected
FallbackCap == 5        \* determine_optimal_clusters: min(5, ...) of the fallback
FallbackDiv == 10       \* determine_optimal_clusters: len(vectors) // 10 of the fallback
BatchSize == 10         \* get_analytics_events_by_ids: batch_size
LabelPool == 10         \* run_daily_analytics: all_cluster_events[:10]
SampleSize == 3         \* run_daily_analytics: query_texts[:3]
FallbackChars == 50     \* _label_cluster: query_texts[0][:50]
RandomSeed == 42        \* MiniBatchKMeans(..., random_state=42) of both fits

----------------------------------------------------------------------------
(* Generic helpers *)

None == "None"

Min(a, b) == IF a <= b THEN a ELSE b

Abs(x) == IF x < 0 THEN 0 - x ELSE x

\* s[:n] of Python
Take(s, n) == SubSeq(s, 1, Min(n, Len(s)))

RECURSIVE SetToSeq(_)
\* the elements of a finite set of integers in ascending order
SetToSeq(S) ==
    IF S = {} THEN <<>>
    ELSE LET m == CHOOSE x \in S : \A y \in S : x <= y
         IN <<m>> \o SetToSeq(S \ {m})

----------------------------------------------------------------------------
(* Tenants, query texts and the embedding capability *)

Tenants == {"p1", "p2"}

\* the course that receives chat traffic in the explored behaviours
ChatCourses == {"p1"}

\* two questions that agree on their first 50 characters and differ after
TextA == [i \in 1..51 |-> IF i <= 50 THEN "a" ELSE "x"]
TextB == [i \in 1..51 |-> IF i <= 50 THEN "a" ELSE "y"]
\* a short question for which the embedding call fails
TextC == <<"c">>

Texts == {TextA, TextB, TextC}

\* gemini_service.get_embedding as seen through get_query_vector: the vector
\* of the text, or None when the embedding call raised
get_query_vector(query_text) ==
    IF query_text = TextA THEN <<0>>
    ELSE IF query_text = TextB THEN <<2>>
    ELSE <<>>

----------------------------------------------------------------------------
(* firestore_service: the analytics collection and the report collection *)

Ratings == {"helpful", "not_helpful"}

\* the document written by log_chat_query
ChatEvent(course_id, query_text) ==
    [type |-> "chat", course_id |-> course_id, query_text |-> query_text,
     query_vector |-> get_query_vector(query_text), rating |-> None]

\* doc.to_dict() with doc_data['doc_id'] = doc.id
WithDocId(store, d) ==
    [doc_id |-> d, type |-> store[d].type, course_id |-> store[d].course_id,
     query_text |-> store[d].query_text, query_vector |-> store[d].query_vector,
     rating |-> store[d].rating]

\* get_analytics_events: the documents of the course (and of the type, when
\* one is given), streamed in document-id order
get_analytics_events(store, course_id, event_type) ==
    LET matching == {d \in DOMAIN store :
                        /\ store[d].course_id = course_id
                        /\ (event_type # None => store[d].type = event_type)}
        ids == SetToSeq(matching)
    IN [i \in 1..Len(ids) |-> WithDocId(store, ids[i])]

\* one "__name__ in batch" query: the existing documents named by the batch,
\* streamed in document-id order (the order of the batch is not an ordering
\* of the query)
StreamBatch(store, batch) ==
    LET ids == SetToSeq({d \in DOMAIN store : \E i \in DOMAIN batch : batch[i] = d})
    IN [i \in 1..Len(ids) |-> WithDocId(store, ids[i])]

RECURSIVE BatchLoop(_, _, _)
\* for i in range(0, len(doc_ids), batch_size): results.append(...)
BatchLoop(store, doc_ids, i) ==
    IF i >= Len(doc_ids) THEN <<>>
    ELSE StreamBatch(store, SubSeq(doc_ids, i + 1, Min(i + BatchSize, Len(doc_ids))))
         \o BatchLoop(store, doc_ids, i + BatchSize)

RECURSIVE Batches(_, _)
\* batch = doc_ids[i:i + batch_size] for i in range(0, len(doc_ids), batch_size)
Batches(doc_ids, i) ==
    IF i >= Len(doc_ids) THEN <<>>
    ELSE <<SubSeq(doc_ids, i + 1, Min(i + BatchSize, Len(doc_ids)))>>
         \o Batches(doc_ids, i + BatchSize)

\* a hydration that queries the first batch only
get_analytics_events_by_ids_FirstBatch(store, doc_ids) ==
    IF doc_ids = <<>> THEN <<>> ELSE StreamBatch(store, Take(doc_ids, BatchSize))

get_analytics_events_by_ids(store, doc_ids) ==
    IF doc_ids = <<>> THEN <<>> ELSE BatchLoop(store, doc_ids, 0)

NoReport == [status |-> "none"]

\* get_analytics_report: the stored report, or {} when there is none
get_analytics_report(course_id) ==
    IF reports[course_id] = NoReport THEN [status |-> "empty"] ELSE reports[course_id]

----------------------------------------------------------------------------
(* analytics_reporting_service: pure stages *)

\* an extractor that keeps the doc_id of every event
_extract_vectors_AllDocIds(evs) ==
    LET with_vec == SetToSeq({i \in DOMAIN evs : evs[i].query_vector # <<>>})
    IN [vectors |-> [i \in 1..Len(with_vec) |-> evs[with_vec[i]].query_vector],
        doc_ids |-> [i \in 1..Len(evs) |-> evs[i].doc_id]]

\* _extract_vectors: the events that carry a vector, in order, as two
\* parallel lists
_extract_vectors(evs) ==
    LET with_vec == SetToSeq({i \in DOMAIN evs : evs[i].query_vector # <<>>})
    IN [vectors |-> [i \in 1..Len(with_vec) |-> evs[with_vec[i]].query_vector],
        doc_ids |-> [i \in 1..Len(with_vec) |-> evs[with_vec[i]].doc_id]]

\* np.argmax returning the last position of the largest element
ArgMax_Last(s) ==
    (CHOOSE i \in DOMAIN s :
        /\ \A j \in DOMAIN s : s[j] <= s[i]
        /\ \A j \in DOMAIN s : j > i => s[j] < s[i]) - 1

\* np.argmax: the first (0-based) position of the largest element
ArgMax(s) ==
    (CHOOSE i \in DOMAIN s :
        /\ \A j \in DOMAIN s : s[j] <= s[i]
        /\ \A j \in DOMAIN s : j < i => s[j] < s[i]) - 1

\* np.diff
Diff(s) == [i \in 1..(Len(s) - 1) |-> s[i + 1] - s[i]]

SeqMin(s) == CHOOSE x \in {s[i] : i \in DOMAIN s} : \A i \in DOMAIN s : x <= s[i]

\* numerators of inertias_normalized; every element has the same positive
\* denominator max - min + 1e-10, which np.diff keeps and np.argmax ignores
NormalizedNum(inertias) == [i \in DOMAIN inertias |-> inertias[i] - SeqMin(inertias)]

\* determine_optimal_clusters with an elbow offset of 1 in place of 2
determine_optimal_clusters_PlusOne(n_samples, max_clusters, inertias, fit_raises) ==
    LET max_k == Min(max_clusters, n_samples - 1)
    IN IF max_k < 2 THEN 1
       ELSE IF fit_raises THEN Min(FallbackCap, n_samples \div FallbackDiv)
       ELSE IF Len(inertias) < 3 THEN Len(inertias)
       ELSE LET second_diff == Diff(Diff(NormalizedNum(inertias)))
                elbow_index == Min(ArgMax(second_diff) + 1, Len(inertias) - 1)
            IN  elbow_index + 1

\* determine_optimal_clusters with no elbow offset
determine_optimal_clusters_NoOffset(n_samples, max_clusters, inertias, fit_raises) ==
    LET max_k == Min(max_clusters, n_samples - 1)
    IN IF max_k < 2 THEN 1
       ELSE IF fit_raises THEN Min(FallbackCap, n_samples \div FallbackDiv)
       ELSE IF Len(inertias) < 3 THEN Len(inertias)
       ELSE LET second_diff == Diff(Diff(NormalizedNum(inertias)))
                elbow_index == Min(ArgMax(second_diff), Len(inertias) - 1)
            IN  elbow_index + 1

\* determine_optimal_clusters(vectors, max_clusters), for n_samples vectors;
\* inertias[k] is the inertia_ of the fit with n_clusters = k and fit_raises
\* tells that a step inside the try block raised
determine_optimal_clusters(n_samples, max_clusters, inertias, fit_raises) ==
    LET max_k == Min(max_clusters, n_samples - 1)
    IN IF max_k < 2 THEN 1
       ELSE IF fit_raises THEN Min(FallbackCap, n_samples \div FallbackDiv)
       ELSE IF Len(inertias) < 3 THEN Len(inertias)
       ELSE LET second_diff == Diff(Diff(NormalizedNum(inertias)))
                elbow_index == Min(ArgMax(second_diff) + 2, Len(inertias) - 1)
            IN  \* k_values = range(1, max_k + 1); k_values[elbow_index]
                elbow_index + 1

\* the values determine_optimal_clusters can return for n_samples vectors
\* under the engine's max_clusters, over the inertias the fits may report
SelectorOutcomes(n_samples) ==
    LET max_k == Min(EngineMaxClusters, n_samples - 1)
        L == IF max_k < 2 THEN 0 ELSE max_k
    IN {determine_optimal_clusters(n_samples, EngineMaxClusters, inertias, FALSE) :
            inertias \in [1..L -> 0..MaxInertia]}

\* MiniBatchKMeans(...).fit_predict raises: the primitive is unavailable, or
\* scikit-learn rejects n_clusters < 1, an empty input, or n_samples < n_clusters
ClusteringRaises(vectors, n_clusters, primitive_fails) ==
    \/ primitive_fails
    \/ n_clusters < 1
    \/ Len(vectors) = 0
    \/ Len(vectors) < n_clusters

\* np.linalg.norm(v - c) in dimension 1
Distance(v, c) == Abs(v[1] - c[1])

\* labels of fit_predict for the fitted centers: each vector goes to its
\* nearest center, the lowest cluster id on a tie; cluster ids are 0-based,
\* centers[j + 1] is the center of cluster j
NearestCenter(v, centers) ==
    (CHOOSE j \in DOMAIN centers :
        /\ \A m \in DOMAIN centers : Distance(v, centers[j]) <= Distance(v, centers[m])
        /\ \A m \in DOMAIN centers :
              m < j => Distance(v, centers[j]) < Distance(v, centers[m])) - 1

_perform_clustering(vectors, centers) ==
    [labels |-> [i \in DOMAIN vectors |-> NearestCenter(vectors[i], centers)],
     cluster_centers |-> centers]

RECURSIVE ArgSort(_, _)
\* np.argsort restricted to the index set S: ascending by key, equal keys in
\* index order
ArgSort(S, key) ==
    IF S = {} THEN <<>>
    ELSE LET m == CHOOSE i \in S :
                      /\ \A j \in S : key[i] <= key[j]
                      /\ \A j \in S : (key[j] = key[i]) => i <= j
         IN <<m>> \o ArgSort(S \ {m}, key)

\* [i for i, label in enumerate(cluster_labels) if label == cluster_id]
ClusterIndices(cluster_labels, cluster_id) ==
    {i \in DOMAIN cluster_labels : cluster_labels[i] = cluster_id}

\* doc ids of a cluster, closest to the centroid first
ClusterDocIds(vectors, doc_ids, cluster_labels, cluster_centers, cluster_id) ==
    LET cluster_indices == ClusterIndices(cluster_labels, cluster_id)
        centroid == cluster_centers[cluster_id + 1]
        distances == [i \in cluster_indices |-> Distance(vectors[i], centroid)]
        sorted_cluster_indices == ArgSort(cluster_indices, distances)
    IN [i \in DOMAIN sorted_cluster_indices |-> doc_ids[sorted_cluster_indices[i]]]

\* sum(1 for event in evs if event.get('rating') == value)
CountRating(evs, value) == Cardinality({i \in DOMAIN evs : evs[i].rating = value})

good_count(evs) == CountRating(evs, "helpful")

\* a tally under the key of the report instead of the stored rating value
bad_count_ReportKey(evs) == CountRating(evs, "bad")

bad_count(evs) == CountRating(evs, "not_helpful")

\* sum(1 for event in evs if not event.get('rating'))
none_count(evs) == Cardinality({i \in DOMAIN evs : evs[i].rating \in {None, ""}})

\* [event.get('query_text', '') for event in cluster_events if event.get('query_text')]
QueryTexts(cluster_events) ==
    LET keep == SetToSeq({i \in DOMAIN cluster_events :
                             cluster_events[i].query_text # <<>>})
    IN [i \in 1..Len(keep) |-> cluster_events[keep[i]].query_text]

----------------------------------------------------------------------------
(* _label_cluster and the text-generation capability *)

Whitespace == {" ", "\n", "\t"}

RECURSIVE LStrip(_, _)
LStrip(s, chars) ==
    IF s # <<>> /\ Head(s) \in chars THEN LStrip(Tail(s), chars) ELSE s

RECURSIVE RStrip(_, _)
RStrip(s, chars) ==
    IF s # <<>> /\ s[Len(s)] \in chars THEN RStrip(SubSeq(s, 1, Len(s) - 1), chars) ELSE s

\* str.strip(chars)
Strip(s, chars) == RStrip(LStrip(s, chars), chars)

\* label.strip().strip('"').strip("'").strip()
CleanLabel(label) == Strip(Strip(Strip(Strip(label, Whitespace), {"\""}), {"'"}), Whitespace)

\* what a call of llm_service.generate_text does
Completion(text) == [kind |-> "completion", text |-> text]
Raises == [kind |-> "raises", text |-> <<>>]
NotCalled == [kind |-> "not_called", text |-> <<>>]
\* generate_text returns a value that is not a string
ReturnsNone == [kind |-> "returns_none", text |-> <<>>]

\* completions the text-generation capability returns in the explored
\* behaviours:  ' "A" '  and  'B'
LLMReplies == { <<" ", "\"", "A", "\"", " ">>, <<"B">> }

LLMOutcomes == {Completion(t) : t \in LLMReplies} \cup {Raises}

MiscLabel ==
    <<"M","i","s","c","e","l","l","a","n","e","o","u","s"," ",
      "Q","u","e","s","t","i","o","n","s">>

FallbackPrefix ==
    <<"Q","u","e","s","t","i","o","n","s"," ","a","b","o","u","t"," ">>

Ellipsis == <<".", ".", ".">>

\* a labeler whose fallback does not truncate the first query
_label_cluster_NoTruncation(query_texts, outcome) ==
    IF query_texts = <<>> THEN MiscLabel
    ELSE IF outcome.kind # "completion"
         THEN FallbackPrefix \o query_texts[1] \o Ellipsis
         ELSE CleanLabel(outcome.text)

\* _label_cluster(query_texts); outcome is what llm_service.generate_text
\* does when it is called: a completion, or Raises
_label_cluster(query_texts, outcome) ==
    IF query_texts = <<>> THEN MiscLabel
    ELSE IF outcome.kind # "completion"
         THEN FallbackPrefix \o Take(query_texts[1], FallbackChars) \o Ellipsis
         ELSE CleanLabel(outcome.text)

\* "if not query_texts: return" precedes the call of generate_text
CallsGenerateText(query_texts) == query_texts # <<>>

----------------------------------------------------------------------------
(* run_daily_analytics: step 4, the loop over range(n_clusters) *)

\* an assignment that keeps the entry a key already has
DictSet_KeepFirst(d, key, value) ==
    [x \in (DOMAIN d) \cup {key} |-> IF x \in DOMAIN d THEN d[x] ELSE value]

\* a Python dict as a function; d[key] = value
DictSet(d, key, value) ==
    [x \in (DOMAIN d) \cup {key} |-> IF x = key THEN value ELSE d[x]]

EmptyDict == <<>>

\* the locals of one iteration of the loop for a cluster that has members;
\* store is the analytics collection read by the hydration, outcome is what
\* generate_text does if this iteration calls it
Iteration(store, vectors, doc_ids, cluster_labels, cluster_centers, cluster_id, outcome) ==
    LET cluster_doc_ids ==
            ClusterDocIds(vectors, doc_ids, cluster_labels, cluster_centers, cluster_id)
        all_cluster_events == get_analytics_events_by_ids(store, cluster_doc_ids)
        cluster_events == Take(all_cluster_events, LabelPool)
        query_texts == QueryTexts(cluster_events)
        cluster_label == _label_cluster(query_texts, outcome)
    IN [cluster_id |-> cluster_id,
        cluster_doc_ids |-> cluster_doc_ids,
        all_cluster_events |-> all_cluster_events,
        query_texts |-> query_texts,
        outcome |-> IF query_texts = <<>> THEN NotCalled ELSE outcome,
        cluster_label |-> cluster_label,
        summary |-> [count |-> Len(cluster_doc_ids),
                     sample_queries |-> Take(query_texts, SampleSize),
                     ratings |-> [good |-> good_count(all_cluster_events),
                                  bad |-> bad_count(all_cluster_events),
                                  none |-> none_count(all_cluster_events)]]]

\* a loop without "if not cluster_indices: continue"
NonEmptyClusters_All(cluster_labels, n_clusters) ==
    SetToSeq(0..(n_clusters - 1))

\* the iterations that pass "if not cluster_indices: continue", in order
NonEmptyClusters(cluster_labels, n_clusters) ==
    SetToSeq({c \in 0..(n_clusters - 1) : ClusterIndices(cluster_labels, c) # {}})

\* the iterations that reach llm_service.generate_text
CallingClusters(store, vectors, doc_ids, cluster_labels, cluster_centers, n_clusters) ==
    {c \in 0..(n_clusters - 1) :
        /\ ClusterIndices(cluster_labels, c) # {}
        /\ Iteration(store, vectors, doc_ids, cluster_labels, cluster_centers,
                     c, Raises).query_texts # <<>>}

\* the executed iterations of the loop; outcomes[c] is what generate_text
\* does in the iteration of cluster c
LoopTrace(store, vectors, doc_ids, cluster_labels, cluster_centers, n_clusters, outcomes) ==
    LET ne == NonEmptyClusters(cluster_labels, n_clusters)
    IN [i \in 1..Len(ne) |->
          Iteration(store, vectors, doc_ids, cluster_labels, cluster_centers,
                    ne[i], outcomes[ne[i]])]

RECURSIVE StoreClusters(_, _, _)
\* clusters = {}; clusters[cluster_label] = {...} for the iterations i..
StoreClusters(trace, i, clusters) ==
    IF i > Len(trace) THEN clusters
    ELSE StoreClusters(trace, i + 1,
                       DictSet(clusters, trace[i].cluster_label, trace[i].summary))

----------------------------------------------------------------------------
(* run_daily_analytics *)

\* centers a fit may end with, in the explored behaviours
CenterValues == {<<0>>, <<2>>}

\* the JSON bodies the route /api/analytics/run receives: n_clusters absent,
\* or an integer
Requests ==
    {[supplied |-> FALSE, n_clusters |-> 0]}
    \cup {[supplied |-> TRUE, n_clusters |-> k] : k \in 0..MaxSupplied}

\* routes.run_analytics: "if n_clusters:" passes the value with
\* auto_detect_clusters=False, otherwise only auto_detect_clusters=True is
\* passed; n_clusters = 0 of a call stands for the default None
RouteCall(request) ==
    IF request.supplied /\ request.n_clusters # 0
    THEN [n_clusters |-> request.n_clusters, auto_detect_clusters |-> FALSE,
          request |-> request]
    ELSE [n_clusters |-> 0, auto_detect_clusters |-> TRUE, request |-> request]

\* the calls of run_daily_analytics made by the route
Calls == {RouteCall(request) : request \in Requests}

Idle ==
    [pc |-> "idle", playground_id |-> None, auto_detect_clusters |-> FALSE,
     request |-> [supplied |-> FALSE, n_clusters |-> 0], selector_ran |-> FALSE,
     primitive_fails |-> FALSE, events |-> <<>>, vectors |-> <<>>, doc_ids |-> <<>>,
     n_clusters |-> 0, cluster_labels |-> <<>>, cluster_centers |-> <<>>,
     trace |-> <<>>, result |-> [status |-> "none"]]

\* a minimum sample that is one short
InsufficientData_OneShort(evs) == evs = <<>> \/ Len(evs) < MinQueries - 1

\* step 1: not events or len(events) < 5
InsufficientData(evs) == evs = <<>> \/ Len(evs) < MinQueries

\* step 2.5: the n_clusters used by step 3
ChosenClusters(call, n_samples, primitive_fails) ==
    IF call.auto_detect_clusters
    THEN IF primitive_fails
         THEN {determine_optimal_clusters(n_samples, EngineMaxClusters, <<>>, TRUE)}
         ELSE SelectorOutcomes(n_samples)
    ELSE IF call.n_clusters = 0 THEN {DefaultClusters} ELSE {call.n_clusters}

\* a report that counts the clustered events only
Report_CountsVectored(playground_id, evs, clusters, n_clusters, auto_detect_clusters) ==
    [status |-> "complete",
     playground_id |-> playground_id,
     total_queries |-> Cardinality({i \in DOMAIN evs : evs[i].query_vector # <<>>}),
     num_clusters |-> Cardinality(DOMAIN clusters),
     optimal_clusters |-> n_clusters,
     auto_detected |-> auto_detect_clusters,
     clusters |-> clusters]

\* a report whose num_clusters is the k of the clustering
Report_CountsRequested(playground_id, evs, clusters, n_clusters, auto_detect_clusters) ==
    [status |-> "complete",
     playground_id |-> playground_id,
     total_queries |-> Len(evs),
     num_clusters |-> n_clusters,
     optimal_clusters |-> n_clusters,
     auto_detected |-> auto_detect_clusters,
     clusters |-> clusters]

\* step 5
Report(playground_id, evs, clusters, n_clusters, auto_detect_clusters) ==
    [status |-> "complete",
     playground_id |-> playground_id,
     total_queries |-> Len(evs),
     num_clusters |-> Cardinality(DOMAIN clusters),
     optimal_clusters |-> n_clusters,
     auto_detected |-> auto_detect_clusters,
     clusters |-> clusters]

\* a save that is not keyed by the playground
save_analytics_report_AllTenants(store, course_id, report_data) ==
    [t \in DOMAIN store |-> report_data]

\* a set(report_data, merge=True): the cluster entries of the stored report
\* that the new report does not name are kept
save_analytics_report_Merge(store, course_id, report_data) ==
    IF store[course_id] = NoReport
    THEN [store EXCEPT ![course_id] = report_data]
    ELSE LET old == store[course_id].clusters
             new == report_data.clusters
         IN [store EXCEPT ![course_id] =
               [report_data EXCEPT !.clusters =
                  [l \in (DOMAIN old) \cup (DOMAIN new) |->
                     IF l \in DOMAIN new THEN new[l] ELSE old[l]]]]

\* save_analytics_report: document(course_id).set(report_data)
save_analytics_report(store, course_id, report_data) ==
    [store EXCEPT ![course_id] = report_data]

\* run_daily_analytics(playground_id, n_clusters, auto_detect_clusters), the
\* whole call.  primitive_fails: MiniBatchKMeans raises in this call.
RunDailyAnalytics(playground_id, call) ==
    /\ run.pc = "idle"
    /\ \E evs \in {get_analytics_events(events, playground_id, "chat")} :
       LET base == [Idle EXCEPT !.playground_id = playground_id,
                                !.auto_detect_clusters = call.auto_detect_clusters,
                                !.request = call.request,
                                !.events = evs]
       IN IF InsufficientData(evs)
          THEN /\ run' = [base EXCEPT !.pc = "done",
                            !.result = [status |-> "insufficient_data",
                                        total_queries |-> Len(evs)]]
               /\ UNCHANGED reports
          ELSE \E ext \in {_extract_vectors(evs)} :
               \E primitive_fails \in BOOLEAN :
               \E k \in ChosenClusters(call, Len(ext.vectors), primitive_fails) :
                  LET b2 == [base EXCEPT !.vectors = ext.vectors,
                                         !.doc_ids = ext.doc_ids,
                                         !.primitive_fails = primitive_fails,
                                         !.selector_ran = call.auto_detect_clusters,
                                         !.n_clusters = k]
                  IN IF ClusteringRaises(ext.vectors, k, primitive_fails)
                     THEN /\ run' = [b2 EXCEPT !.pc = "raised",
                                               !.result = [status |-> "raised"]]
                          /\ UNCHANGED reports
                     ELSE \E centers \in [1..k -> CenterValues] :
                          \E clu \in {_perform_clustering(ext.vectors, centers)} :
                          \E calling \in {CallingClusters(events, ext.vectors, ext.doc_ids,
                                               clu.labels, clu.cluster_centers, k)} :
                          \E chosen \in [calling -> LLMOutcomes] :
                          \E trace \in {LoopTrace(events, ext.vectors, ext.doc_ids,
                                           clu.labels, clu.cluster_centers, k,
                                           [c \in 0..(k - 1) |->
                                              IF c \in calling THEN chosen[c]
                                              ELSE NotCalled])} :
                             /\ run' = [b2 EXCEPT !.pc = "done",
                                          !.cluster_labels = clu.labels,
                                          !.cluster_centers = clu.cluster_centers,
                                          !.trace = trace,
                                          !.result = Report(playground_id, evs,
                                                        StoreClusters(trace, 1, EmptyDict),
                                                        k, call.auto_detect_clusters)]
                             /\ reports' = save_analytics_report(reports, playground_id,
                                                                 run'.result)
    /\ UNCHANGED <<events, sel, inv, twin, job, app>>

----------------------------------------------------------------------------
(* writers of the analytics collection *)

\* analytics_logging_service.log_chat_query -> firestore_service.log_analytics_event
LogChatQuery(course_id, query_text) ==
    /\ Len(events) < MaxEvents
    /\ events' = Append(events, ChatEvent(course_id, query_text))
    /\ UNCHANGED <<reports, run, sel, inv, twin, job, app>>

\* firestore_service.rate_analytics_event(doc_id, rating): update() of an
\* existing document; rating = None deletes the field, which reads as None
rate_analytics_event(doc_id, rating) ==
    /\ doc_id \in DOMAIN events
    /\ events' = [events EXCEPT ![doc_id].rating = rating]
    /\ UNCHANGED <<reports, run, sel, inv, twin, job, app>>

----------------------------------------------------------------------------
(* The engine with its environment *)

SelUnused == [pc |-> "unused"]

\* concurrent invocations of the route, used by RaceSpec
NumInvocations == 2

Invocations == 1..NumInvocations

InvIdle ==
    [pc |-> "idle", playground_id |-> None,
     call |-> RouteCall([supplied |-> FALSE, n_clusters |-> 0]),
     events |-> <<>>, report |-> NoReport, before |-> NoReport,
     overlapped |-> FALSE, saved |-> 0]

TwinUnused == [pc |-> "unused"]

JobUnused == [pc |-> "unused"]

AppUnused == [pc |-> "unused"]

Init ==
    /\ events = <<>>
    /\ reports = [t \in Tenants |-> NoReport]
    /\ run = Idle
    /\ sel = SelUnused
    /\ inv = [i \in Invocations |-> InvIdle]
    /\ twin = TwinUnused
    /\ job = JobUnused
    /\ app = AppUnused

\* The explored behaviours are a history of the collection followed by one
\* call of run_daily_analytics: students chat and rate until the call.
Chat ==
    /\ run.pc = "idle"
    /\ \E c \in ChatCourses, t \in Texts : LogChatQuery(c, t)

Rate ==
    /\ run.pc = "idle"
    /\ \E d \in 1..MaxRatedDoc, r \in Ratings \cup {None} : rate_analytics_event(d, r)

\* a professor triggers the analytics of a playground
Analyse == \E p \in Tenants, call \in Calls : RunDailyAnalytics(p, call)

Next == Chat \/ Rate \/ Analyse

Spec == Init /\ [][Next]_vars

----------------------------------------------------------------------------
(* The cluster-count selector on its own: determine_optimal_clusters applied *)
(* to n_samples vectors, max_clusters and the inertias the fits report       *)

SelCalls ==
    {[pc |-> "called", n_samples |-> n, max_clusters |-> m, inertias |-> i,
      fit_raises |-> f, result |-> 0] :
        n \in 0..MaxSelN, m \in 1..MaxSelClusters, f \in BOOLEAN,
        i \in UNION {[1..L -> 0..MaxInertia] : L \in 0..MaxSelClusters}}

\* one inertia per fitted k = 1..max_k, none when the selector returns early
SelInit ==
    /\ events = <<>>
    /\ reports = [t \in Tenants |-> NoReport]
    /\ run = Idle
    /\ inv = [i \in Invocations |-> InvIdle]
    /\ twin = TwinUnused
    /\ job = JobUnused
    /\ app = AppUnused
    /\ sel \in {c \in SelCalls :
                  LET max_k == Min(c.max_clusters, c.n_samples - 1)
                  IN Len(c.inertias) = IF max_k < 2 \/ c.fit_raises THEN 0 ELSE max_k}

SelReturn ==
    /\ sel.pc = "called"
    /\ sel' = [sel EXCEPT !.pc = "returned",
                          !.result = determine_optimal_clusters(sel.n_samples,
                                        sel.max_clusters, sel.inertias, sel.fit_raises)]
    /\ UNCHANGED <<events, reports, run, inv, twin, job, app>>

SelNext == SelReturn

SelSpec == SelInit /\ [][SelNext]_vars

----------------------------------------------------------------------------
(* The selector on the inertia curves of two kinds of input, under the      *)
(* engine's max_clusters = 15: three well-separated blobs, where the        *)
(* inertia drops sharply from k = 1 to 2 and from 2 to 3 and stays within a *)
(* jitter of 1 from k = 3 on, and near-duplicate vectors, where the whole   *)
(* curve stays within a jitter of 1.  Inertias do not increase with k.      *)

SharpDrops == {DropUnit * d : d \in 1..MaxDrop}

\* a curve of length max_k that is 1 before position j and 0 from j on, with
\* the drops d1 (from k = 1 to 2) and d2 (from k = 2 to 3) in front
BlobCurve(max_k, d1, d2, j) ==
    [k \in 1..max_k |->
        IF k = 1 THEN d1 + d2 + 1
        ELSE IF k = 2 THEN d2 + 1
        ELSE IF k < j THEN 1 ELSE 0]

FlatCurve(max_k, j) == [k \in 1..max_k |-> IF k < j THEN 1 ELSE 0]

ScenarioCalls ==
    LET max_b == Min(EngineMaxClusters, BlobVectors - 1)
        max_a == Min(EngineMaxClusters, DuplicateVectors - 1)
    IN {[pc |-> "called", scenario |-> "B", n_samples |-> BlobVectors,
         max_clusters |-> EngineMaxClusters, fit_raises |-> FALSE, result |-> 0,
         inertias |-> BlobCurve(max_b, d1, d2, j)] :
            d1 \in SharpDrops, d2 \in SharpDrops, j \in 3..(max_b + 1)}
       \cup
       {[pc |-> "called", scenario |-> "A", n_samples |-> DuplicateVectors,
         max_clusters |-> EngineMaxClusters, fit_raises |-> FALSE, result |-> 0,
         inertias |-> FlatCurve(max_a, j)] : j \in 1..(max_a + 1)}

ScenarioInit ==
    /\ events = <<>>
    /\ reports = [t \in Tenants |-> NoReport]
    /\ run = Idle
    /\ inv = [i \in Invocations |-> InvIdle]
    /\ twin = TwinUnused
    /\ job = JobUnused
    /\ app = AppUnused
    /\ sel \in ScenarioCalls

ScenarioSpec == ScenarioInit /\ [][SelNext]_vars

----------------------------------------------------------------------------
(* Overlapping invocations of run_daily_analytics.  Every request is served *)
(* by its own worker; between two calls of the Firestore client the other   *)
(* invocation takes steps.  The collection holds the minimum sample when    *)
(* the first request arrives; chats and ratings are explored by Spec.       *)

\* the analytics collection when the first request arrives
RaceCollection ==
    <<ChatEvent("p1", TextA), ChatEvent("p1", TextB),
      ChatEvent("p1", TextB), ChatEvent("p1", TextA), ChatEvent("p1", TextC)>>

RaceInit ==
    /\ events = RaceCollection
    /\ reports = [t \in Tenants |-> NoReport]
    /\ run = Idle
    /\ sel = SelUnused
    /\ inv = [i \in Invocations |-> InvIdle]
    /\ twin = TwinUnused
    /\ job = JobUnused
    /\ app = AppUnused

\* step 1: get_analytics_events and the test of the minimum sample;
\* overlapped records that another invocation for the playground is between
\* its fetch and its save, before the stored report of the playground when
\* the invocation starts
InvFetch(i, playground_id, call) ==
    /\ inv[i].pc = "idle"
    /\ \E evs \in {get_analytics_events(events, playground_id, "chat")} :
         inv' = [inv EXCEPT ![i] =
                   [pc |-> IF InsufficientData(evs) THEN "done" ELSE "fetched",
                    playground_id |-> playground_id,
                    call |-> call,
                    events |-> evs,
                    report |-> IF InsufficientData(evs)
                               THEN [status |-> "insufficient_data",
                                     total_queries |-> Len(evs)]
                               ELSE NoReport,
                    overlapped |-> \E j \in Invocations \ {i} :
                                      /\ inv[j].playground_id = playground_id
                                      /\ inv[j].pc \in {"fetched", "assembled"},
                    before |-> reports[playground_id],
                    saved |-> 0]]
    /\ UNCHANGED <<events, reports, run, sel, twin, job, app>>

\* an assembly that persists what it has before it raises
InvAssemble_SavesPartial(i) ==
    /\ inv[i].pc = "fetched"
    /\ inv' = [inv EXCEPT ![i].pc = "raised", ![i].report = [status |-> "raised"]]
    /\ reports' = save_analytics_report(reports, inv[i].playground_id,
                                        [status |-> "partial"])
    /\ UNCHANGED <<events, run, sel, twin, job, app>>

\* steps 2 to 5: extraction, selection, clustering, the loop over the
\* clusters, whose hydration reads the collection as it is now, and the
\* assembly of the report; an exception leaves the function before step 6
InvAssemble(i) ==
    /\ inv[i].pc = "fetched"
    /\ \E ext \in {_extract_vectors(inv[i].events)} :
       \E primitive_fails \in BOOLEAN :
       \E k \in ChosenClusters(inv[i].call, Len(ext.vectors), primitive_fails) :
          IF ClusteringRaises(ext.vectors, k, primitive_fails)
          THEN inv' = [inv EXCEPT ![i].pc = "raised",
                                  ![i].report = [status |-> "raised"]]
          ELSE \E centers \in [1..k -> CenterValues] :
               \E clu \in {_perform_clustering(ext.vectors, centers)} :
               \E calling \in {CallingClusters(events, ext.vectors, ext.doc_ids,
                                    clu.labels, clu.cluster_centers, k)} :
               \E chosen \in [calling -> LLMOutcomes] :
               \E trace \in {LoopTrace(events, ext.vectors, ext.doc_ids,
                                clu.labels, clu.cluster_centers, k,
                                [c \in 0..(k - 1) |->
                                   IF c \in calling THEN chosen[c] ELSE NotCalled])} :
                  inv' = [inv EXCEPT
                            ![i].pc = "assembled",
                            ![i].report = Report(inv[i].playground_id, inv[i].events,
                                                 StoreClusters(trace, 1, EmptyDict), k,
                                                 inv[i].call.auto_detect_clusters)]
    /\ UNCHANGED <<events, reports, run, sel, twin, job, app>>

\* the number of save_analytics_report calls so far
SavesSoFar == Cardinality({j \in Invocations : inv[j].saved > 0})

\* a save that gives way to a report saved earlier for the playground
InvSave_FirstWins(i) ==
    /\ inv[i].pc = "assembled"
    /\ reports' = IF reports[inv[i].playground_id] = NoReport
                  THEN save_analytics_report(reports, inv[i].playground_id,
                                             inv[i].report)
                  ELSE reports
    /\ inv' = [inv EXCEPT ![i].pc = "done", ![i].saved = SavesSoFar + 1]
    /\ UNCHANGED <<events, run, sel, twin, job, app>>

\* step 6: save_analytics_report, one set() of the playground's document,
\* and the return of the report; saved numbers the saves in their order
InvSave(i) ==
    /\ inv[i].pc = "assembled"
    /\ reports' = save_analytics_report(reports, inv[i].playground_id, inv[i].report)
    /\ inv' = [inv EXCEPT ![i].pc = "done", ![i].saved = SavesSoFar + 1]
    /\ UNCHANGED <<events, run, sel, twin, job, app>>

Arrive == \E i \in Invocations, p \in Tenants, call \in Calls : InvFetch(i, p, call)

Assemble == \E i \in Invocations : InvAssemble(i)

Save == \E i \in Invocations : InvSave(i)

RaceNext == Arrive \/ Assemble \/ Save

RaceSpec == RaceInit /\ [][RaceNext]_vars

----------------------------------------------------------------------------
(* Two executions of steps 2.5 and 3 over the same vectors.  The fit of     *)
(* MiniBatchKMeans is a function of the vectors, n_clusters and the stream  *)
(* of its random generator: the initial centers are drawn from the data by  *)
(* the stream, every vector goes to its nearest center.                     *)

\* coordinates of the vectors of the repeated runs
TwinVectors == {<<0>>, <<1>>, <<2>>}

\* a generator that is seeded from the operating system
RandomState_Unseeded(random_state, entropy) == entropy

\* check_random_state(random_state): an integer seed fixes the stream,
\* whatever entropy the operating system holds at the time of the call
RandomState(random_state, entropy) == random_state

\* cluster_centers_ of a fit: n_clusters centers drawn from the vectors
FitCenters(vectors, n_clusters, stream) ==
    [j \in 1..n_clusters |-> vectors[((stream + j) % Len(vectors)) + 1]]

RECURSIVE SumSquares(_, _, _)
\* sum over the vectors i.. of the squared distance to the nearest center
SumSquares(vectors, centers, i) ==
    IF i > Len(vectors) THEN 0
    ELSE LET d == Distance(vectors[i], centers[NearestCenter(vectors[i], centers) + 1])
         IN d * d + SumSquares(vectors, centers, i + 1)

\* inertia_ of a fit
Inertia(vectors, centers) == SumSquares(vectors, centers, 1)

\* steps 2.5 and 3 of an auto-detecting run over the vectors, both fits
\* made with random_state = 42; entropy is what an unseeded generator
\* would draw
TwinOutcome(vectors, entropy) ==
    LET stream == RandomState(RandomSeed, entropy)
        n == Len(vectors)
        max_k == Min(EngineMaxClusters, n - 1)
        inertias == [k \in 1..(IF max_k < 2 THEN 0 ELSE max_k) |->
                        Inertia(vectors, FitCenters(vectors, k, stream))]
        n_clusters == determine_optimal_clusters(n, EngineMaxClusters, inertias, FALSE)
        clu == _perform_clustering(vectors, FitCenters(vectors, n_clusters, stream))
        doc_ids == [i \in 1..n |-> i]
    IN [n_clusters |-> n_clusters,
        cluster_labels |-> clu.labels,
        cluster_centers |-> clu.cluster_centers,
        counts |-> [c \in 0..(n_clusters - 1) |->
                      Cardinality(ClusterIndices(clu.labels, c))],
        members |-> [c \in 0..(n_clusters - 1) |->
                       ClusterDocIds(vectors, doc_ids, clu.labels,
                                     clu.cluster_centers, c)]]

NoOutcome == [n_clusters |-> 0]

TwinInit ==
    /\ events = <<>>
    /\ reports = [t \in Tenants |-> NoReport]
    /\ run = Idle
    /\ sel = SelUnused
    /\ inv = [i \in Invocations |-> InvIdle]
    /\ job = JobUnused
    /\ app = AppUnused
    /\ twin \in {[pc |-> "ready", vectors |-> v, entropy |-> e,
                   outcome |-> [r \in 1..2 |-> NoOutcome]] :
                     v \in UNION {[1..n -> TwinVectors] : n \in MinQueries..MaxTwinN},
                     e \in [1..2 -> 0..MaxEntropy]}

\* execution r of the run over twin.vectors
TwinRun(r) ==
    /\ twin.pc = "ready"
    /\ twin.outcome[r] = NoOutcome
    /\ twin' = [twin EXCEPT !.outcome[r] = TwinOutcome(twin.vectors, twin.entropy[r])]
    /\ UNCHANGED <<events, reports, run, sel, inv, job, app>>

TwinNext == \E r \in 1..2 : TwinRun(r)

TwinSpec == TwinInit /\ [][TwinNext]_vars

----------------------------------------------------------------------------
(* The calls of run_daily_analytics to its collaborators: the Firestore     *)
(* client for the analytics collection (lines 168 and 224) and the report   *)
(* collection (line 267), and the text generation of the labeler.  The code *)
(* passes no timeout or deadline to any of them, so whether a call is       *)
(* bounded is left to the client library.  A collaborator answers, fails or *)
(* stalls; the job's own steps and an armed deadline are not delayed        *)
(* forever.                                                                 *)

NoCall == [callee |-> "none", bounded |-> FALSE]

\* a call without a timeout argument: bounded tells whether the client
\* library applies a deadline of its own
Issue(callee) == {[callee |-> callee, bounded |-> b] : b \in BOOLEAN}

JobIdle ==
    [pc |-> "idle", total_queries |-> 0, clusters |-> 0, pending |-> 0,
     fallbacks |-> 0, call |-> NoCall]

StallInit ==
    /\ events = <<>>
    /\ reports = [t \in Tenants |-> NoReport]
    /\ run = Idle
    /\ sel = SelUnused
    /\ inv = [i \in Invocations |-> InvIdle]
    /\ twin = TwinUnused
    /\ job = JobIdle
    /\ app = AppUnused

\* step 1 issues firestore_service.get_analytics_events
JobStart ==
    /\ job.pc = "idle"
    /\ \E c \in Issue("event_store") :
         job' = [job EXCEPT !.pc = "fetching", !.call = c]
    /\ UNCHANGED <<events, reports, run, sel, inv, twin, app>>

\* the fetch returns n events: insufficient_data is returned, or steps 2 to 3
\* raise, or they leave m clusters with members and the loop issues the
\* hydration of the first
FetchReturns ==
    /\ job.pc = "fetching"
    /\ \E n \in 0..MaxJobEvents :
         IF n < MinQueries
         THEN job' = [job EXCEPT !.pc = "done", !.total_queries = n, !.call = NoCall]
         ELSE \/ job' = [job EXCEPT !.pc = "raised", !.total_queries = n,
                                     !.call = NoCall]
              \/ \E m \in 1..MaxJobClusters, c \in Issue("event_store") :
                    job' = [job EXCEPT !.pc = "hydrating", !.total_queries = n,
                                       !.clusters = m, !.pending = m, !.call = c]
    /\ UNCHANGED <<events, reports, run, sel, inv, twin, app>>

\* get_analytics_events_by_ids returns; _label_cluster issues generate_text
HydrationReturns ==
    /\ job.pc = "hydrating"
    /\ \E c \in Issue("text_generation") :
         job' = [job EXCEPT !.pc = "labeling", !.call = c]
    /\ UNCHANGED <<events, reports, run, sel, inv, twin, app>>

\* the end of one iteration of the loop: the next cluster is hydrated, or
\* step 6 issues save_analytics_report
NextIteration(fallback) ==
    IF job.pending > 1
    THEN \E c \in Issue("event_store") :
            job' = [job EXCEPT !.pc = "hydrating", !.pending = @ - 1,
                               !.fallbacks = @ + fallback, !.call = c]
    ELSE \E c \in Issue("report_store") :
            job' = [job EXCEPT !.pc = "saving", !.pending = 0,
                               !.fallbacks = @ + fallback, !.call = c]

\* generate_text returns a label
LabelReturns ==
    /\ job.pc = "labeling"
    /\ NextIteration(0)
    /\ UNCHANGED <<events, reports, run, sel, inv, twin, app>>

\* generate_text raises: _label_cluster catches and returns the fallback
LabelFails ==
    /\ job.pc = "labeling"
    /\ NextIteration(1)
    /\ UNCHANGED <<events, reports, run, sel, inv, twin, app>>

\* save_analytics_report returns and the report is returned
SaveReturns ==
    /\ job.pc = "saving"
    /\ job' = [job EXCEPT !.pc = "done", !.call = NoCall]
    /\ UNCHANGED <<events, reports, run, sel, inv, twin, app>>

\* a call of the Firestore client raises: run_daily_analytics re-raises
StoreCallFails ==
    /\ job.pc \in {"fetching", "hydrating", "saving"}
    /\ job' = [job EXCEPT !.pc = "raised", !.call = NoCall]
    /\ UNCHANGED <<events, reports, run, sel, inv, twin, app>>

\* the deadline of a bounded call expires: the client raises, which the
\* labeler catches and run_daily_analytics re-raises
DeadlineExpires ==
    /\ job.call.bounded
    /\ IF job.pc = "labeling"
       THEN NextIteration(1)
       ELSE job' = [job EXCEPT !.pc = "raised", !.call = NoCall]
    /\ UNCHANGED <<events, reports, run, sel, inv, twin, app>>

StallNext ==
    \/ JobStart
    \/ FetchReturns
    \/ HydrationReturns
    \/ LabelReturns
    \/ LabelFails
    \/ SaveReturns
    \/ StoreCallFails
    \/ DeadlineExpires

StallSpec ==
    StallInit /\ [][StallNext]_vars /\ WF_vars(JobStart) /\ WF_vars(DeadlineExpires)

----------------------------------------------------------------------------
(* The labeler on its own: _label_cluster applied to a list of query texts, *)
(* with what generate_text does when it is called                           *)

LabelerOutcomes == LLMOutcomes \cup {ReturnsNone}

QueryLists == UNION {[1..n -> Texts] : n \in 0..MaxQueryTexts}

LabelInit ==
    /\ events = <<>>
    /\ reports = [t \in Tenants |-> NoReport]
    /\ run = Idle
    /\ sel = SelUnused
    /\ inv = [i \in Invocations |-> InvIdle]
    /\ twin = TwinUnused
    /\ job = JobUnused
    /\ app \in {[pc |-> "called", query_texts |-> q, outcome |-> o,
                  llm_called |-> FALSE, result |-> <<>>] :
                    q \in QueryLists, o \in LabelerOutcomes}

LabelReturn ==
    /\ app.pc = "called"
    /\ app' = [app EXCEPT !.pc = "returned",
                          !.llm_called = CallsGenerateText(app.query_texts),
                          !.result = _label_cluster(app.query_texts, app.outcome)]
    /\ UNCHANGED <<events, reports, run, sel, inv, twin, job>>

LabelNext == LabelReturn

LabelSpec == LabelInit /\ [][LabelNext]_vars

----------------------------------------------------------------------------
(* The hydration on its own: get_analytics_events_by_ids applied to a list  *)
(* of distinct document ids, some of which name no document                 *)

\* analytics collections that hold the ids 1..MaxRequested but a few
HydrationStores ==
    {[d \in (1..MaxRequested) \ missing |-> ChatEvent("p1", TextA)] :
        missing \in {m \in SUBSET (1..MaxRequested) : Cardinality(m) <= MaxMissing}}

\* the ids 1..n, ascending or descending
RequestedIds ==
    UNION {{[i \in 1..n |-> i], [i \in 1..n |-> n + 1 - i]} : n \in 0..MaxRequested}

HydrationInit ==
    /\ events = <<>>
    /\ reports = [t \in Tenants |-> NoReport]
    /\ run = Idle
    /\ sel = SelUnused
    /\ inv = [i \in Invocations |-> InvIdle]
    /\ twin = TwinUnused
    /\ job = JobUnused
    /\ app \in {[pc |-> "called", store |-> st, doc_ids |-> ids,
                  lookups |-> <<>>, result |-> <<>>] :
                    st \in HydrationStores, ids \in RequestedIds}

HydrationReturn ==
    /\ app.pc = "called"
    /\ app' = [app EXCEPT !.pc = "returned",
                          !.lookups = Batches(app.doc_ids, 0),
                          !.result = get_analytics_events_by_ids(app.store, app.doc_ids)]
    /\ UNCHANGED <<events, reports, run, sel, inv, twin, job>>

HydrationNext == HydrationReturn

HydrationSpec == HydrationInit /\ [][HydrationNext]_vars

----------------------------------------------------------------------------
(* Properties *)

\* the chat documents of a playground in the collection
ChatDocsOf(t) ==
    {d \in DOMAIN events : events[d].course_id = t /\ events[d].type = "chat"}

Returned == run.pc = "done"

Complete == run.pc = "done" /\ run.result.status = "complete"

Insufficient == run.pc = "done" /\ run.result.status = "insufficient_data"

\* the fetched events that carry an embedding
Vectored == {i \in DOMAIN run.events : run.events[i].query_vector # <<>>}

\* cluster ids in [0, k) with at least one assigned vector
NonEmptyIds ==
    {c \in 0..(run.n_clusters - 1) : \E i \in DOMAIN run.cluster_labels :
                                        run.cluster_labels[i] = c}

RECURSIVE SumCounts(_, _)
\* sum of count over the entries of a clusters mapping with keys K
SumCounts(clusters, K) ==
    IF K = {} THEN 0
    ELSE LET l == CHOOSE x \in K : TRUE
         IN clusters[l].count + SumCounts(clusters, K \ {l})

\* s starts with prefix
StartsWith(s, prefix) ==
    Len(s) >= Len(prefix) /\ SubSeq(s, 1, Len(prefix)) = prefix

\* C1: a call that fetches fewer than 5 chat events returns insufficient_data
\* with total_queries the number of fetched events, and leaves the report
\* collection as it was.
C1_InsufficientDataNotSaved ==
    [][\A t \in Tenants :
         (run.pc = "idle" /\ run'.pc # "idle" /\ run'.playground_id = t
          /\ Cardinality(ChatDocsOf(t)) < 5)
         => /\ run'.pc = "done"
            /\ run'.result.status = "insufficient_data"
            /\ run'.result.total_queries = Cardinality(ChatDocsOf(t))
            /\ reports' = reports]_vars

C1_Witness ==
    Insufficient /\ run.result.total_queries = 4 /\ run.playground_id = "p1"

\* C2: with exactly 5 fetched events the call returns complete and the report
\* is persisted; with exactly 4 it returns insufficient_data and nothing is
\* saved.
C2_BoundaryOfMinimumSample ==
    (run.pc # "idle" /\ ~run.primitive_fails)
    => /\ Len(run.events) = 5
          => (Complete /\ reports[run.playground_id] = run.result)
       /\ Len(run.events) = 4
          => (Insufficient /\ reports[run.playground_id] = NoReport)

\* C3: with at least 5 fetched events of which none carries an embedding the
\* call does not raise and returns a complete report with no clusters.
C3_NoEmbeddingsGivesEmptyReport ==
    (run.pc # "idle" /\ ~run.primitive_fails /\ Len(run.events) >= 5 /\ Vectored = {})
    => /\ Complete
       /\ DOMAIN run.result.clusters = {}
       /\ run.result.num_clusters = 0

\* C4: for n >= 5 vectors the selector returns k with
\* 1 <= k <= min(max_clusters, n - 1) on every return path.
C4_SelectedKInRange ==
    (sel.pc = "returned" /\ sel.n_samples >= 5)
    => /\ 1 <= sel.result
       /\ sel.result <= Min(sel.max_clusters, sel.n_samples - 1)

\* C5: in a complete report the counts of the entries of the clusters mapping
\* add up to the number of fetched events that carry an embedding.
C5_CountsSumToVectored ==
    Complete
    => SumCounts(run.result.clusters, DOMAIN run.result.clusters) = Cardinality(Vectored)

C7_SamplesOrderedByDistance ==
    Complete
    => \A n \in DOMAIN run.trace :
         LET it == run.trace[n]
             centroid == run.cluster_centers[it.cluster_id + 1]
             samples == it.summary.sample_queries
         IN run.result.clusters[it.cluster_label] = it.summary
            => \A i, j \in DOMAIN samples :
                 i < j => Distance(get_query_vector(samples[i]), centroid)
                          <= Distance(get_query_vector(samples[j]), centroid)

\* C8: when two non-empty clusters receive the same label, the persisted
\* mapping has one entry for the label and it is the summary of the cluster
\* with the highest ordinal among them.
C8_LaterClusterOverwrites ==
    Complete
    => \A m, n \in DOMAIN run.trace :
         (/\ run.trace[m].cluster_id < run.trace[n].cluster_id
          /\ run.trace[m].cluster_label = run.trace[n].cluster_label
          /\ \A q \in DOMAIN run.trace :
               run.trace[q].cluster_label = run.trace[n].cluster_label
               => run.trace[q].cluster_id <= run.trace[n].cluster_id)
         => /\ run.trace[n].cluster_label \in DOMAIN reports[run.playground_id].clusters
            /\ reports[run.playground_id].clusters[run.trace[n].cluster_label]
                 = run.trace[n].summary

C8_Witness ==
    /\ Complete
    /\ \E m, n \in DOMAIN run.trace :
         /\ run.trace[m].cluster_id < run.trace[n].cluster_id
         /\ run.trace[m].outcome.kind = "completion"
         /\ run.trace[n].outcome.kind = "completion"
         /\ run.trace[m].cluster_label = run.trace[n].cluster_label
         /\ run.trace[m].summary # run.trace[n].summary

\* C9: in a complete report num_clusters is the number of non-empty clusters
\* the clusterer produced.
C9_NumClustersCountsNonEmpty ==
    Complete => run.result.num_clusters = Cardinality(NonEmptyIds)

\* C10: when generate_text raises on every call the run completes and every
\* non-empty cluster appears in the report under a label of the form
\* "Questions about ...".
C10_AllClustersUnderFallbackLabels ==
    (run.pc # "idle" /\ ~run.primitive_fails /\ Len(run.events) >= 5
       /\ Vectored # {} /\ Cardinality(Vectored) >= run.n_clusters
       /\ \A n \in DOMAIN run.trace : run.trace[n].outcome = Raises)
    => /\ Complete
       /\ \A n \in DOMAIN run.trace :
            /\ StartsWith(run.trace[n].cluster_label, FallbackPrefix)
            /\ run.trace[n].cluster_label \in DOMAIN run.result.clusters
            /\ run.result.clusters[run.trace[n].cluster_label] = run.trace[n].summary

\* the call reached step 2.5 (at least 5 events were fetched)
ReachedSelection == run.pc # "idle" /\ ~InsufficientData(run.events)

\* C11: when the request supplies n_clusters the selector is not run, the
\* clusterer is invoked with the supplied value and a complete report has
\* optimal_clusters equal to it and auto_detected false; when the request
\* has no n_clusters the selector runs and auto_detected is true.
C11_SuppliedClustersSkipSelector ==
    ReachedSelection
    => IF run.request.supplied
       THEN /\ ~run.selector_ran
            /\ run.n_clusters = run.request.n_clusters
            /\ Complete => /\ run.result.optimal_clusters = run.request.n_clusters
                            /\ run.result.auto_detected = FALSE
       ELSE /\ run.selector_ran
            /\ Complete => run.result.auto_detected = TRUE

\* invocation i has returned or raised
Finished(i) == inv[i].pc \in {"done", "raised"}

\* the invocations that have saved a report for playground t
Savers(t) == {i \in Invocations : inv[i].saved > 0 /\ inv[i].playground_id = t}

LastSaver(t) == CHOOSE i \in Savers(t) : \A j \in Savers(t) : inv[j].saved <= inv[i].saved

\* C12: when a run saves its complete report for playground t,
\* get_analytics_report(t) is exactly the report the run returns: no cluster
\* entry or field of the report stored before survives.
C12_SaveIsFullOverwrite ==
    [][\A i \in Invocations :
         (inv[i].pc = "assembled" /\ inv'[i].pc = "done")
         => /\ inv'[i].report.status = "complete"
            /\ get_analytics_report(inv[i].playground_id)' = inv'[i].report]_vars

\* a run that started after a report with another label had been stored has
\* replaced it
C12_Witness ==
    \E i \in Invocations :
       /\ inv[i].pc = "done" /\ inv[i].saved > 0 /\ ~inv[i].overlapped
       /\ inv[i].before # NoReport
       /\ (DOMAIN inv[i].before.clusters) \ (DOMAIN inv[i].report.clusters) # {}
       /\ get_analytics_report(inv[i].playground_id) = inv[i].report

\* C13: once all invocations for a playground have finished, the stored
\* report is in its entirety the report of the invocation whose save
\* executed last.
C13_LastSaveWins ==
    \A t \in Tenants :
       ((\A i \in Invocations : inv[i].playground_id = t => Finished(i))
          /\ Savers(t) # {})
       => reports[t] = inv[LastSaver(t)].report

\* two overlapping invocations for one playground have saved different
\* reports
C13_Witness ==
    \E i, j \in Invocations :
       /\ i # j /\ inv[i].overlapped
       /\ inv[i].playground_id = inv[j].playground_id
       /\ inv[i].pc = "done" /\ inv[j].pc = "done"
       /\ inv[i].saved > 0 /\ inv[j].saved > inv[i].saved
       /\ DOMAIN inv[i].report.clusters # DOMAIN inv[j].report.clusters

\* C14: a run that raises before step 6 propagates the failure without
\* calling save_analytics_report: the step that raises leaves the report
\* collection as it is, and the run takes no step afterwards.
C14_RaiseSavesNothing ==
    [][\A i \in Invocations :
         /\ (inv[i].pc # "raised" /\ inv'[i].pc = "raised")
            => (reports' = reports /\ inv'[i].saved = 0)
         /\ inv[i].pc = "raised" => inv'[i] = inv[i]]_vars

\* a run that found a complete report stored has raised, and the report is
\* still the stored one
C14_Witness ==
    \E i \in Invocations :
       /\ inv[i].pc = "raised" /\ ~inv[i].overlapped
       /\ inv[i].before # NoReport
       /\ inv[i].before.status = "complete"
       /\ reports[inv[i].playground_id] = inv[i].before

\* C15: a call of run_daily_analytics, whether it returns a complete
\* report, returns insufficient_data or raises, leaves the analytics
\* collection as it is and writes no report other than its playground's.
C15_RunWritesOnlyItsReport ==
    [][run' # run
       => /\ events' = events
          /\ \A t \in Tenants :
               t # run'.playground_id => reports'[t] = reports[t]]_vars

\* a complete run over a collection with a rated event has saved its report,
\* and the rating and the other playground's report are untouched
C15_Witness ==
    /\ Complete
    /\ reports[run.playground_id] = run.result
    /\ \E d \in DOMAIN events : events[d].rating \in Ratings
    /\ \A d \in DOMAIN events :
         \E n \in DOMAIN run.events :
            run.events[n].doc_id = d /\ run.events[n].rating = events[d].rating
    /\ \A t \in Tenants \ {run.playground_id} : reports[t] = NoReport

\* C16: once an event has a rating, a later rate_answer on its doc_id does
\* not change the stored rating.
C16_RatingSetOnce ==
    [][\A d \in DOMAIN events :
         (events[d].rating \in Ratings /\ events'[d].rating \in Ratings)
         => events'[d].rating = events[d].rating]_vars

C18_ThreeBlobsSelectThree ==
    (sel.pc = "returned" /\ sel.scenario = "B") => sel.result = 3

\* C19: on the almost flat inertia curve of 20 near-duplicate vectors the
\* selector returns 1 or 2.
C19_NearDuplicatesSelectOneOrTwo ==
    (sel.pc = "returned" /\ sel.scenario = "A") => sel.result \in {1, 2}

\* C20: in every report a call returns, complete or insufficient_data,
\* total_queries is the number of events the initial fetch returned, the
\* chat events of the playground with and without an embedding alike.
C20_TotalQueriesCountsFetched ==
    Returned
    => /\ run.result.total_queries = Len(run.events)
       /\ Len(run.events) = Cardinality(ChatDocsOf(run.playground_id))

\* a complete report over events of which some carry an embedding and some
\* do not
C20_Witness ==
    /\ Complete
    /\ Vectored # {}
    /\ Cardinality(Vectored) < Len(run.events)
    /\ run.result.total_queries = Len(run.events)

\* C21: every invocation that has started eventually returns a report or
\* raises, also when a collaborator stalls.
C21_EveryRunTerminates ==
    (job.pc = "fetching") ~> (job.pc \in {"done", "raised"})

\* C22: when a step of the elbow procedure raises, the selector returns
\* max(1, min(5, n // 10)), which is never below 1.
C22_FallbackAtLeastOne ==
    (sel.pc = "returned" /\ sel.fit_raises /\ Min(sel.max_clusters, sel.n_samples - 1) >= 2)
    => LET fallback == Min(5, sel.n_samples \div 10)
       IN sel.result = IF fallback < 1 THEN 1 ELSE fallback

Clamp(x, lo, hi) == IF x < lo THEN lo ELSE IF x > hi THEN hi ELSE x

\* the reference selector: 1 when effective_max < 2, effective_max with fewer
\* than 3 inertia samples, else k_values[clamp(argmax + 2, 0, len(k_values) - 1)]
\* for the argmax of the second differences of the min-max normalised
\* inertias, with k_values = 1..effective_max
ReferenceK(n, max_clusters, inertias) ==
    LET effective_max == IF max_clusters < n - 1 THEN max_clusters ELSE n - 1
        L == Len(inertias)
        lo == CHOOSE x \in {inertias[i] : i \in 1..L} : \A i \in 1..L : inertias[i] >= x
        x(i) == inertias[i] - lo
        d2(i) == x(i + 2) - 2 * x(i + 1) + x(i)
        best == CHOOSE i \in 1..(L - 2) :
                    /\ \A j \in 1..(L - 2) : d2(j) <= d2(i)
                    /\ \A j \in 1..(i - 1) : d2(j) # d2(i)
    IN IF effective_max < 2 THEN 1
       ELSE IF L < 3 THEN effective_max
       ELSE Clamp((best - 1) + 2, 0, effective_max - 1) + 1

\* C23: on the path where nothing raises, the selector's result equals the
\* reference selector's.
C23_MatchesReference ==
    (sel.pc = "returned" /\ ~sel.fit_raises)
    => sel.result = ReferenceK(sel.n_samples, sel.max_clusters, sel.inertias)

C23_Witness ==
    /\ sel.pc = "returned" /\ ~sel.fit_raises
    /\ Len(sel.inertias) = 4 /\ sel.inertias[1] > sel.inertias[2]
    /\ sel.result = 4

\* C28: when the selector fits at least three candidate k and nothing
\* raises, it returns k >= 3.
C28_ElbowReturnsAtLeastThree ==
    (sel.pc = "returned" /\ ~sel.fit_raises /\ Len(sel.inertias) >= 3)
    => /\ sel.n_samples >= 4 /\ sel.max_clusters >= 3
       /\ sel.result >= 3

C28_Witness ==
    /\ sel.pc = "returned" /\ ~sel.fit_raises
    /\ sel.n_samples = 4 /\ sel.max_clusters = 3 /\ Len(sel.inertias) = 3
    /\ sel.result = 3

SecondDiff(inertias) == Diff(Diff(NormalizedNum(inertias)))

\* C29: for an inertia sequence of length L >= 3 the argmax of the second
\* differences plus 2 is at most L - 1, so the clamp leaves the index as it
\* is and k_values is indexed in range; among equal largest second
\* differences the smallest k is selected.
C29_ElbowIndexInRange ==
    (sel.pc = "returned" /\ ~sel.fit_raises /\ Len(sel.inertias) >= 3)
    => LET L == Len(sel.inertias)
           sd == SecondDiff(sel.inertias)
           index == ArgMax(sd) + 2
       IN /\ index <= L - 1
          /\ Min(index, L - 1) = index
          /\ index + 1 \in 1..Min(sel.max_clusters, sel.n_samples - 1)
          /\ sel.result = index + 1
          /\ \A j \in DOMAIN sd :
                (\A i \in DOMAIN sd : sd[i] <= sd[j]) => sel.result <= j + 2

C29_Witness ==
    /\ sel.pc = "returned" /\ ~sel.fit_raises /\ Len(sel.inertias) = 4
    /\ SecondDiff(sel.inertias)[1] = SecondDiff(sel.inertias)[2]
    /\ sel.inertias[1] # sel.inertias[2]
    /\ sel.result = 3

\* the call reached step 2 (_extract_vectors was applied to the fetched events)
Extracted == run.pc # "idle" /\ ~Insufficient

\* C24: the extractor returns the events that carry an embedding, in input
\* order, as two sequences of equal length in which the i-th doc_id and the
\* i-th vector are those of the i-th such event; with no such event both
\* are empty.
C24_ExtractorKeepsVectoredInOrder ==
    Extracted
    => /\ Len(run.vectors) = Len(run.doc_ids)
       /\ Len(run.doc_ids) = Cardinality(Vectored)
       /\ \A i \in DOMAIN run.doc_ids :
            \E j \in Vectored :
               /\ Cardinality({h \in Vectored : h < j}) = i - 1
               /\ run.events[j].doc_id = run.doc_ids[i]
               /\ run.events[j].query_vector = run.vectors[i]
       /\ (Vectored = {} => run.vectors = <<>> /\ run.doc_ids = <<>>)

C24_Witness ==
    /\ Extracted
    /\ Len(run.doc_ids) >= 2
    /\ \E h, j \in DOMAIN run.events :
          h < j /\ run.events[h].query_vector = <<>> /\ run.events[j].query_vector # <<>>
    /\ run.vectors[1] # run.vectors[2]

\* C27: an iteration whose cluster id has no assigned vector is skipped: it
\* hydrates nothing, labels nothing and stores nothing, so every entry of the
\* clusters mapping of a complete report has count >= 1.
C27_EmptyClustersSkipped ==
    Complete
    => /\ \A n \in DOMAIN run.trace :
            /\ run.trace[n].cluster_id \in NonEmptyIds
            /\ run.trace[n].cluster_doc_ids # <<>>
       /\ \A c \in (0..(run.n_clusters - 1)) \ NonEmptyIds :
            \A n \in DOMAIN run.trace : run.trace[n].cluster_id # c
       /\ \A l \in DOMAIN run.result.clusters : run.result.clusters[l].count >= 1

C27_Witness ==
    /\ Complete
    /\ run.n_clusters >= 2
    /\ NonEmptyIds # {}
    /\ 0 \notin NonEmptyIds
    /\ DOMAIN run.result.clusters # {}

\* C30: in a complete report num_clusters is the number of keys of the
\* clusters mapping and is at most optimal_clusters.
C30_NumClustersAtMostOptimal ==
    Complete
    => /\ run.result.num_clusters = Cardinality(DOMAIN run.result.clusters)
       /\ run.result.num_clusters <= run.result.optimal_clusters
       /\ run.result.optimal_clusters = run.n_clusters

C30_Witness ==
    /\ Complete
    /\ run.result.num_clusters >= 1
    /\ run.result.num_clusters < Cardinality(NonEmptyIds)
    /\ Cardinality(NonEmptyIds) <= run.result.optimal_clusters

\* C25: the labeler returns "Miscellaneous Questions" for an empty list
\* without calling the text generation; for a non-empty list on which the
\* text generation fails it returns "Questions about ", the first 50
\* characters of the first query and "...".
C25_LabelerFallsBack ==
    app.pc = "returned"
    => /\ app.query_texts = <<>>
            => app.result = MiscLabel /\ ~app.llm_called
       /\ (app.query_texts # <<>> /\ app.outcome.kind # "completion")
            => LET first == app.query_texts[1]
                   n == IF Len(first) < 50 THEN Len(first) ELSE 50
               IN /\ app.llm_called
                  /\ Len(app.result) = 16 + n + 3
                  /\ SubSeq(app.result, 1, 16) = FallbackPrefix
                  /\ SubSeq(app.result, 17, 16 + n) = SubSeq(first, 1, n)
                  /\ SubSeq(app.result, 17 + n, 19 + n) = <<".", ".", ".">>

C25_Witness ==
    /\ app.pc = "returned"
    /\ app.outcome = Raises
    /\ Len(app.query_texts) >= 2
    /\ Len(app.query_texts[1]) > 50
    /\ Len(app.result) = 69

\* the positions of the lookups that name document id d
LookupsOf(d) ==
    {<<b, p>> \in (DOMAIN app.lookups) \X (1..BatchSize) :
        p <= Len(app.lookups[b]) /\ app.lookups[b][p] = d}

\* C26: the hydration issues lookups of at most 10 ids each, every requested
\* id is in exactly one lookup, and the result holds one record for every
\* requested id that names a document and none for the others.
C26_HydrationIsChunked ==
    app.pc = "returned"
    => LET requested == {app.doc_ids[i] : i \in DOMAIN app.doc_ids}
       IN /\ \A b \in DOMAIN app.lookups :
               Len(app.lookups[b]) >= 1 /\ Len(app.lookups[b]) <= 10
          /\ \A d \in requested : Cardinality(LookupsOf(d)) = 1
          /\ \A b \in DOMAIN app.lookups : \A p \in DOMAIN app.lookups[b] :
               app.lookups[b][p] \in requested
          /\ \A d \in requested :
               Cardinality({i \in DOMAIN app.result : app.result[i].doc_id = d})
                 = IF d \in DOMAIN app.store THEN 1 ELSE 0
          /\ \A i \in DOMAIN app.result : app.result[i].doc_id \in requested

C26_Witness ==
    /\ app.pc = "returned"
    /\ Len(app.doc_ids) = 12
    /\ Len(app.lookups) = 2
    /\ 11 \notin DOMAIN app.store
    /\ 3 \notin DOMAIN app.store
    /\ Len(app.result) = 10

====
